---- MODULE Spec2Model ----
(***************************************************************************)
(* Model of the matrix-indexer ingestion pipeline: the EventCache, the     *)
(* event serializer, the MongoDB events collection written with            *)
(* replace_one(upsert=True), the sync-token state file, the sync loop of   *)
(* MatrixIndexer and the paginated walk of MatrixBackfill.                 *)
(***************************************************************************)
EXTENDS Integers, Sequences, FiniteSets, TLC

VARIABLES
    stream,          \* the homeserver's sync stream: batch k is returned for since = k-1
    store,           \* events_collection: the documents, in insertion order
    cache,           \* EventCache.cache: OrderedDict as a sequence of [key, value]
    max_size,        \* EventCache.max_size
    sync_token,      \* MatrixIndexer.sync_token (None when absent)
    state_file,      \* config.state_file on disk: [exists, text]
    running,         \* MatrixIndexer.running
    pc,              \* position of the indexer process
    resp,            \* the SyncResponse being applied
    room_idx,        \* index of the next joined room of resp to process
    docs_to_insert,  \* _process_events: the documents still to be written
    poll_token,      \* history: the since token of the current cycle's poll
    cycle_saved,     \* history: the state file was written in the current cycle
    cycle_failed,    \* history: a store write failed in the current cycle
    saved_before,    \* history: the token the state file held at the cycle's poll
    rooms,           \* MatrixBackfill.client.rooms: room_id -> [prev_batch, history, pos]
    bpc,             \* position of the backfill process
    b_room,          \* backfill_room: room_id
    start_token,     \* backfill_room: start_token
    b_i,             \* backfill_room: the loop variable i
    event_count,     \* backfill_room: event_count
    b_docs,          \* backfill_room: the documents of the batch still to be written
    b_len,           \* backfill_room: len(docs_to_insert) of the batch
    b_result,        \* <<the value backfill_room returned>>, <<>> before it returns
    b_fault,         \* history: what raised in the walk: "none", "fetch" or "store"
    b_limit,         \* backfill_room: limit
    results,         \* backfill_all_rooms: results
    b_rooms,         \* backfill_all_rooms: the rooms still to walk
    sweep,           \* position of backfill_all: "none", "connect", "rooms" or "done"
    passes,          \* replay: how often the batch was passed through _process_events
    once,            \* replay: the store after the first complete pass
    adds,            \* cache calls: the event_ids passed to add, in order
    inserted_at,     \* cache calls: for each id, the add that last inserted it
    ret              \* cache calls: what the last get/contains/size returned

vars == <<stream, store, cache, max_size, sync_token, state_file, running, pc,
          resp, room_idx, docs_to_insert, poll_token, cycle_saved,
          cycle_failed, saved_before, rooms, bpc, b_room, start_token, b_i, event_count,
          b_docs, b_len, b_result, b_fault, b_limit, results, b_rooms, sweep,
          passes, once,
          adds, inserted_at, ret>>

\* the variables of the indexer process and of the backfill process
indexer_vars == <<cache, max_size, sync_token, state_file, running, pc, resp,
                  room_idx, docs_to_insert, poll_token, cycle_saved, cycle_failed,
                  saved_before>>
harness_vars == <<passes, once, adds, inserted_at, ret>>
sweep_vars == <<results, b_rooms, sweep>>
backfill_vars == <<bpc, b_room, start_token, b_i, event_count, b_docs, b_len,
                   b_result, b_fault, b_limit, sweep_vars>>

-----------------------------------------------------------------------------
(* Bounds of the model *)

\* number of batches the homeserver's sync stream holds
NumBatches == 2
\* longest timeline passed through _process_events in the replay
MaxReplayLen == 3
\* how often the replay delivers its timeline again
MaxRedeliveries == 2
\* largest capacity of an EventCache and number of add calls made on it
MaxCap == 2
MaxAdds == 4

-----------------------------------------------------------------------------
(* Values *)

\* Python None, for the string-valued fields
None == "None"
\* the empty dict {}
EmptyDict == [k \in {} |-> None]

\* getattr(obj, name, default) / hasattr(obj, name): a raw event is a record
\* whose domain is its set of attributes
HasAttr(obj, name) == name \in DOMAIN obj
GetAttr(obj, name, default) == IF name \in DOMAIN obj THEN obj[name] ELSE default

\* Raw protocol events as delivered by the client library; a numeric attribute
\* is held in thousandths (timestamp 7500 is 7.5)
TextEvent(id, body) ==
    [class |-> "RoomMessageText", event_id |-> id, sender |-> "@alice",
     source |-> [raw |-> "m"], body |-> body, msgtype |-> "m.text"]
StateEvent(id, room) ==
    [class |-> "Event", event_id |-> id, room_id |-> room, sender |-> "@bob",
     type |-> "m.room.name", origin_server_ts |-> "ts", timestamp |-> 7500,
     source |-> [raw |-> "s"], content |-> [name |-> "n"]]
\* an event whose content attribute is not a dict
OddEvent(id) ==
    [class |-> "Event", event_id |-> id, sender |-> "@erin",
     content |-> [nondict |-> "text"]]
\* an event with an empty identifier, and one with no identifier attribute
EmptyIdEvent == [class |-> "Event", event_id |-> "", sender |-> "@carol"]
NoIdEvent == [class |-> "Event", sender |-> "@dave"]
\* an event whose identifier attribute is None
NoneIdEvent == [class |-> "Event", event_id |-> None, sender |-> "@frank"]

\* int(x) for a number held in thousandths: truncation toward zero
PyInt(milli) == IF milli >= 0 THEN milli \div 1000 ELSE -((-milli) \div 1000)

\* isinstance(value, dict): a non-dict value is tagged by a nondict field
IsDict(value) == "nondict" \notin DOMAIN value

\* a skip that tests only for the attribute
LacksEventIdAttr(event) == ~HasAttr(event, "event_id")

\* bool(value) of a string-valued field: None and the empty string are false
Truthy(value) == value \notin {None, ""}

\* `not hasattr(event, 'event_id') or not event.event_id`
LacksEventId(event) == \/ ~HasAttr(event, "event_id")
                       \/ ~Truthy(event.event_id)

-----------------------------------------------------------------------------
(* EventCache *)

\* position of key in the OrderedDict, 0 when absent
RECURSIVE IndexOfKey(_, _)
IndexOfKey(od, key) ==
    IF od = <<>> THEN 0
    ELSE IF od[Len(od)].key = key THEN Len(od)
    ELSE IndexOfKey(SubSeq(od, 1, Len(od) - 1), key)

CacheKeys(od) == {od[i].key : i \in 1..Len(od)}

\* an assignment that moves an existing key to the end (an LRU on write)
OrderedDictSetMoveToEnd(od, key, value) ==
    Append(SelectSeq(od, LAMBDA e : e.key # key), [key |-> key, value |-> value])

\* self.cache[event_id] = event: an existing key keeps its position
OrderedDictSet(od, key, value) ==
    IF IndexOfKey(od, key) = 0
    THEN Append(od, [key |-> key, value |-> value])
    ELSE [od EXCEPT ![IndexOfKey(od, key)].value = value]

\* popitem() with its default last=True
PopItemLast(od) == SubSeq(od, 1, Len(od) - 1)

\* self.cache.popitem(last=False)
PopItemFirst(od) == Tail(od)

\* EventCache.add
CacheAdd(od, cap, event_id, event) ==
    LET added == OrderedDictSet(od, event_id, event)
    IN IF Len(added) > cap THEN PopItemFirst(added) ELSE added

\* EventCache.get
CacheGet(od, event_id) ==
    IF IndexOfKey(od, event_id) = 0 THEN None
    ELSE od[IndexOfKey(od, event_id)].value

\* EventCache.contains
CacheContains(od, event_id) == IndexOfKey(od, event_id) # 0

\* EventCache.size
CacheSize(od) == Len(od)

-----------------------------------------------------------------------------
(* Serialization and the events collection *)

\* MatrixIndexer._serialize_event
SerializeEvent(event) ==
    [event_id |-> GetAttr(event, "event_id", None),
     room_id |-> GetAttr(event, "room_id", None),
     sender |-> GetAttr(event, "sender", None),
     type |-> GetAttr(event, "type", None),
     origin_server_ts |-> GetAttr(event, "origin_server_ts", None),
     timestamp |-> PyInt(GetAttr(event, "timestamp", 0)),
     source |-> GetAttr(event, "source", EmptyDict),
     content |->
        IF event.class = "RoomMessageText"
        THEN [body |-> event.body, msgtype |-> event.msgtype]
        ELSE IF HasAttr(event, "content")
        THEN (IF IsDict(event.content) THEN event.content ELSE EmptyDict)
        ELSE EmptyDict]

\* the document MatrixBackfill.backfill_room builds for an event
BackfillDoc(event, room_id) ==
    [event_id |-> event.event_id,
     room_id |-> room_id,
     sender |-> GetAttr(event, "sender", None),
     type |-> GetAttr(event, "type", None),
     origin_server_ts |-> GetAttr(event, "origin_server_ts", None),
     timestamp |-> PyInt(GetAttr(event, "timestamp", 0)),
     source |-> GetAttr(event, "source", EmptyDict),
     content |-> GetAttr(event, "content", EmptyDict),
     backfilled |-> TRUE]

\* index of the first document of the collection matching {"event_id": id}
RECURSIVE FindOne(_, _)
FindOne(coll, id) ==
    IF coll = <<>> THEN 0
    ELSE IF coll[1].event_id = id THEN 1
    ELSE IF FindOne(Tail(coll), id) = 0 THEN 0
    ELSE 1 + FindOne(Tail(coll), id)

\* insert_one(doc) in place of the upsert
ReplaceOneInsert(coll, doc) == Append(coll, doc)

\* update_one(filter, {"$set": doc}, upsert=True): fields doc lacks are kept
ReplaceOneUpdate(coll, doc) ==
    IF FindOne(coll, doc.event_id) = 0
    THEN Append(coll, doc)
    ELSE LET old == coll[FindOne(coll, doc.event_id)]
         IN [coll EXCEPT ![FindOne(coll, doc.event_id)] =
                [f \in DOMAIN old \cup DOMAIN doc |->
                    IF f \in DOMAIN doc THEN doc[f] ELSE old[f]]]

\* update_one(filter, {"$setOnInsert": doc}, upsert=True): a document that is
\* present is left as it is
ReplaceOneSetOnInsert(coll, doc) ==
    IF FindOne(coll, doc.event_id) = 0 THEN Append(coll, doc) ELSE coll

\* events_collection.replace_one({"event_id": doc["event_id"]}, doc, upsert=True)
ReplaceOne(coll, doc) ==
    IF FindOne(coll, doc.event_id) = 0
    THEN Append(coll, doc)
    ELSE [coll EXCEPT ![FindOne(coll, doc.event_id)] = doc]

\* _process_events, lines 174-184: the documents built from a timeline
RECURSIVE DocsOf(_)
DocsOf(events) ==
    IF events = <<>> THEN <<>>
    ELSE IF LacksEventId(events[1]) THEN DocsOf(Tail(events))
    ELSE <<SerializeEvent(events[1])>> \o DocsOf(Tail(events))

\* _process_events, lines 176-184: the cache after the loop over a timeline
RECURSIVE CacheAfter(_, _, _)
CacheAfter(od, cap, events) ==
    IF events = <<>> THEN od
    ELSE IF LacksEventId(events[1]) THEN CacheAfter(od, cap, Tail(events))
    ELSE CacheAfter(CacheAdd(od, cap, events[1].event_id, SerializeEvent(events[1])),
                    cap, Tail(events))

-----------------------------------------------------------------------------
(* The state file *)

\* A JSON text is the sequence of its pieces: the opening of the object with
\* its key, the value, the closing brace
JsonOpenKey(key) == [t |-> "{key:", v |-> key]
JsonString(str) == [t |-> "string", v |-> str]
JsonNull == [t |-> "null", v |-> None]
JsonClose == [t |-> "}", v |-> None]

\* json.dumps({"sync_token": token})
JsonDumps(token) ==
    <<JsonOpenKey("sync_token"),
      IF token = None THEN JsonNull ELSE JsonString(token),
      JsonClose>>

\* json.loads(text) of a state file: [ok, state]; ok is FALSE when it raises
JsonLoads(text) ==
    IF /\ Len(text) = 3
       /\ text[1] = JsonOpenKey("sync_token")
       /\ text[2].t \in {"string", "null"}
       /\ text[3] = JsonClose
    THEN [ok |-> TRUE,
          state |-> [sync_token |-> IF text[2].t = "null" THEN None ELSE text[2].v]]
    ELSE [ok |-> FALSE, state |-> EmptyDict]

NoFile == [exists |-> FALSE, text |-> <<>>]

\* MatrixIndexer._load_state: the sync_token afterwards
LoadState(file, token) ==
    IF file.exists /\ JsonLoads(file.text).ok
    THEN JsonLoads(file.text).state.sync_token
    ELSE token

\* Path.write_text opens the file for writing, which truncates it
OpenForWrite(file) == [exists |-> TRUE, text |-> <<>>]

\* the file after the first n pieces of text reached it
Written(text, n) == [exists |-> TRUE, text |-> SubSeq(text, 1, n)]

-----------------------------------------------------------------------------
(* The homeserver's sync endpoint *)

\* the opaque tokens the homeserver hands out, in stream order
TokenNames == <<"s1", "s2", "s3", "s4">>

\* stream position a since token stands for
PosOf(token) ==
    IF token = None THEN 0
    ELSE CHOOSE k \in 1..Len(TokenNames) : TokenNames[k] = token

\* client.sync(since=token) answered with a SyncResponse
SyncResponse(token) ==
    IF PosOf(token) < Len(stream)
    THEN [next_batch |-> TokenNames[PosOf(token) + 1],
          rooms |-> stream[PosOf(token) + 1]]
    ELSE [next_batch |-> token, rooms |-> <<>>]

NoResp == [next_batch |-> None, rooms |-> <<>>]

\* the status codes of the error responses the homeserver gives: the access
\* token is refused, the client is rate limited
ErrorCodes == {"M_UNKNOWN_TOKEN", "M_LIMIT_EXCEEDED"}

\* client.sync answered with a SyncError
SyncError(code) == [next_batch |-> None, rooms |-> <<>>, status_code |-> code]

\* isinstance(resp, SyncResponse)
IsSyncResponse(r) == ~HasAttr(r, "status_code")

\* a joined room of a sync response: resp.rooms.join[room_id].timeline.events
JoinedRoom(room_id, events) == [room_id |-> room_id, events |-> events]

\* the sync responses the model draws the stream from: two rooms with events,
\* an event without identifier before, after and instead of one that has one,
\* a room with an empty timeline, a response with no joined room
Responses ==
    {<<JoinedRoom("r1", <<TextEvent("e1", "hello"), NoIdEvent>>),
       JoinedRoom("r2", <<StateEvent("e2", "r2")>>)>>,
     <<JoinedRoom("r1", <<EmptyIdEvent, StateEvent("e2", "r1")>>)>>,
     <<JoinedRoom("r1", <<>>), JoinedRoom("r2", <<TextEvent("e1", "hello")>>)>>,
     <<JoinedRoom("r1", <<OddEvent("e3"), TextEvent("e4", "bye")>>)>>,
     <<JoinedRoom("r2", <<NoIdEvent, NoneIdEvent>>)>>,
     <<>>}

\* a response whose events are also in the history the backfill walks
SharedResponses ==
    {<<JoinedRoom("r1", <<TextEvent("e1", "hello"), NoneIdEvent>>),
       JoinedRoom("r2", <<StateEvent("e2", "r2")>>)>>}

-----------------------------------------------------------------------------
(* MatrixIndexer *)

\* after a room of resp was handled: the next room
NextRoom ==
    /\ room_idx' = room_idx + 1
    /\ pc' = "rooms"

\* MatrixIndexer.__init__, connect (_load_state) and the start of sync_loop
Connect ==
    /\ pc = "idle"
    /\ sync_token' = LoadState(state_file, None)
    /\ running' = TRUE
    /\ pc' = "top"
    /\ UNCHANGED <<harness_vars, stream, rooms, backfill_vars, store, cache, max_size, state_file, resp, room_idx,
                   docs_to_insert, poll_token, cycle_saved, cycle_failed,
                   saved_before>>

\* connect lines 84-91: the password login is refused; connect raises, main
\* logs the fatal error, calls stop and the process ends
LoginFailed ==
    /\ pc = "idle"
    /\ pc' = "fatal"
    /\ UNCHANGED <<harness_vars, stream, rooms, backfill_vars, store, cache, max_size, sync_token, state_file, running,
                   resp, room_idx, docs_to_insert, poll_token, cycle_saved,
                   cycle_failed, saved_before>>

\* sync_loop lines 205-208: the loop condition holds and client.sync is called
\* with since=self.sync_token; the loop is suspended until the poll is answered
Poll ==
    /\ pc = "top" /\ running
    /\ pc' = "poll"
    /\ UNCHANGED <<harness_vars, stream, rooms, backfill_vars, store, cache, max_size, sync_token, state_file, running,
                   resp, room_idx, docs_to_insert, poll_token, cycle_saved,
                   cycle_failed, saved_before>>

\* sync_loop lines 208-211: the poll returns a SyncResponse; sync_token is set
SyncOk ==
    /\ pc = "poll"
    /\ resp' = SyncResponse(sync_token)
    /\ IsSyncResponse(resp')
    /\ poll_token' = sync_token
    /\ saved_before' = LoadState(state_file, None)
    /\ sync_token' = resp'.next_batch
    /\ cycle_saved' = FALSE
    /\ cycle_failed' = FALSE
    /\ pc' = "save"
    /\ UNCHANGED <<harness_vars, stream, rooms, backfill_vars, store, cache, max_size, state_file, running, room_idx,
                   docs_to_insert>>

\* an error response handled without the isinstance test: next_batch, which an
\* error response lacks, becomes the cursor
SyncErrorResponseAdvance ==
    /\ pc = "poll"
    /\ \E code \in ErrorCodes : resp' = SyncError(code)
    /\ poll_token' = sync_token
    /\ saved_before' = LoadState(state_file, None)
    /\ sync_token' = resp'.next_batch
    /\ cycle_saved' = FALSE
    /\ cycle_failed' = FALSE
    /\ pc' = "backoff"
    /\ UNCHANGED <<harness_vars, stream, rooms, backfill_vars, store, cache, max_size, state_file, running,
                   room_idx, docs_to_insert>>

\* sync_loop lines 220-222: the poll returns an error response
SyncErrorResponse ==
    /\ pc = "poll"
    /\ \E code \in ErrorCodes : resp' = SyncError(code)
    /\ ~IsSyncResponse(resp')
    /\ poll_token' = sync_token
    /\ saved_before' = LoadState(state_file, None)
    /\ cycle_saved' = FALSE
    /\ cycle_failed' = FALSE
    /\ pc' = "backoff"
    /\ UNCHANGED <<harness_vars, stream, rooms, backfill_vars, store, cache, max_size, sync_token, state_file, running,
                   room_idx, docs_to_insert>>

\* sync_loop lines 224-226: the poll raises
SyncRaises ==
    /\ pc = "poll"
    /\ poll_token' = sync_token
    /\ saved_before' = LoadState(state_file, None)
    /\ cycle_saved' = FALSE
    /\ cycle_failed' = FALSE
    /\ pc' = "backoff"
    /\ UNCHANGED <<harness_vars, stream, rooms, backfill_vars, store, cache, max_size, sync_token, state_file, running,
                   resp, room_idx, docs_to_insert>>

\* asyncio.sleep(5) is over
Backoff ==
    /\ pc = "backoff"
    /\ pc' = "top"
    /\ UNCHANGED <<harness_vars, stream, rooms, backfill_vars, store, cache, max_size, sync_token, state_file, running,
                   resp, room_idx, docs_to_insert, poll_token, cycle_saved,
                   cycle_failed,
                   saved_before>>

\* _save_state: write_text opens (and truncates) the state file
SaveStateOpen ==
    /\ pc = "save"
    /\ state_file' = OpenForWrite(state_file)
    /\ pc' = "saving"
    /\ UNCHANGED <<harness_vars, stream, rooms, backfill_vars, store, cache, max_size, sync_token, running, resp,
                   room_idx, docs_to_insert, poll_token, cycle_saved, cycle_failed,
                   saved_before>>

\* _save_state: the text is written and the file closed
SaveStateWrite ==
    /\ pc = "saving"
    /\ state_file' = Written(JsonDumps(sync_token), Len(JsonDumps(sync_token)))
    /\ cycle_saved' = TRUE
    /\ room_idx' = 1
    /\ pc' = "rooms"
    /\ UNCHANGED <<harness_vars, stream, rooms, backfill_vars, store, cache, max_size, sync_token, running, resp,
                   docs_to_insert, poll_token, cycle_failed,
                   saved_before>>

\* _save_state lines 144-145: mkdir or the open raises; the file is untouched
SaveStateOpenError ==
    /\ pc = "save"
    /\ room_idx' = 1
    /\ pc' = "rooms"
    /\ UNCHANGED <<harness_vars, stream, rooms, backfill_vars, store, cache, max_size, sync_token, state_file, running,
                   resp, docs_to_insert, poll_token, cycle_saved, cycle_failed,
                   saved_before>>

\* _save_state lines 144-145: the write raises after n pieces reached the file
SaveStateWriteError ==
    /\ pc = "saving"
    /\ \E n \in 0..(Len(JsonDumps(sync_token)) - 1) :
           state_file' = Written(JsonDumps(sync_token), n)
    /\ room_idx' = 1
    /\ pc' = "rooms"
    /\ UNCHANGED <<harness_vars, stream, rooms, backfill_vars, store, cache, max_size, sync_token, running, resp,
                   docs_to_insert, poll_token, cycle_saved, cycle_failed,
                   saved_before>>

\* sync_loop lines 215-217 and _process_events lines 171-186 for one joined room
ProcessEvents ==
    /\ pc = "rooms"
    /\ room_idx <= Len(resp.rooms)
    /\ LET events == resp.rooms[room_idx].events
       IN IF events = <<>>
          THEN NextRoom /\ UNCHANGED <<cache, docs_to_insert>>
          ELSE /\ cache' = CacheAfter(cache, max_size, events)
               /\ IF DocsOf(events) = <<>>
                  THEN NextRoom /\ UNCHANGED docs_to_insert
                  ELSE /\ docs_to_insert' = DocsOf(events)
                       /\ pc' = "storing"
                       /\ UNCHANGED room_idx
    /\ UNCHANGED <<harness_vars, stream, rooms, backfill_vars, store, max_size, sync_token, state_file, running, resp,
                   poll_token, cycle_saved, cycle_failed,
                   saved_before>>

\* _process_events lines 189-195: one replace_one of the loop
StoreNext ==
    /\ pc = "storing"
    /\ store' = ReplaceOne(store, Head(docs_to_insert))
    /\ docs_to_insert' = Tail(docs_to_insert)
    /\ IF Tail(docs_to_insert) = <<>>
       THEN NextRoom
       ELSE UNCHANGED <<pc, room_idx>>
    /\ UNCHANGED <<harness_vars, stream, rooms, backfill_vars, cache, max_size, sync_token, state_file, running, resp,
                   poll_token, cycle_saved, cycle_failed,
                   saved_before>>

\* _process_events lines 196-197: replace_one raises; the rest is not written
StoreError ==
    /\ pc = "storing"
    /\ docs_to_insert' = <<>>
    /\ cycle_failed' = TRUE
    /\ NextRoom
    /\ UNCHANGED <<harness_vars, stream, rooms, backfill_vars, store, cache, max_size, sync_token, state_file, running,
                   resp, poll_token, cycle_saved,
                   saved_before>>

\* sync_loop line 219: every joined room was handled
SyncComplete ==
    /\ pc = "rooms"
    /\ room_idx > Len(resp.rooms)
    /\ pc' = "top"
    /\ UNCHANGED <<harness_vars, stream, rooms, backfill_vars, store, cache, max_size, sync_token, state_file, running,
                   resp, room_idx, docs_to_insert, poll_token, cycle_saved,
                   cycle_failed,
                   saved_before>>

\* MatrixIndexer.stop line 237
Stop ==
    /\ pc \notin {"idle", "stopped"}
    /\ running
    /\ running' = FALSE
    /\ UNCHANGED <<harness_vars, stream, rooms, backfill_vars, store, cache, max_size, sync_token, state_file, pc,
                   resp, room_idx, docs_to_insert, poll_token, cycle_saved,
                   cycle_failed,
                   saved_before>>

\* sync_loop line 205: the loop condition fails
LoopExit ==
    /\ pc = "top" /\ ~running
    /\ pc' = "stopped"
    /\ UNCHANGED <<harness_vars, stream, rooms, backfill_vars, store, cache, max_size, sync_token, state_file, running,
                   resp, room_idx, docs_to_insert, poll_token, cycle_saved,
                   cycle_failed,
                   saved_before>>

\* sync_loop lines 228-230: the task is cancelled while it awaits
Cancelled ==
    /\ pc \in {"poll", "backoff"}
    /\ running' = FALSE
    /\ pc' = "stopped"
    /\ UNCHANGED <<harness_vars, stream, rooms, backfill_vars, store, cache, max_size, sync_token, state_file, resp,
                   room_idx, docs_to_insert, poll_token, cycle_saved, cycle_failed,
                   saved_before>>

\* the process dies: what is in memory is lost, the collection and the file stay;
\* a write in flight leaves any prefix of the text in the file
Crash ==
    /\ pc # "idle"
    /\ IF pc = "saving"
       THEN \E n \in 0..(Len(JsonDumps(sync_token)) - 1) :
               state_file' = Written(JsonDumps(sync_token), n)
       ELSE UNCHANGED state_file
    /\ sync_token' = None
    /\ cache' = <<>>
    /\ running' = FALSE
    /\ resp' = NoResp
    /\ room_idx' = 1
    /\ docs_to_insert' = <<>>
    /\ poll_token' = None
    /\ saved_before' = None
    /\ cycle_saved' = FALSE
    /\ cycle_failed' = FALSE
    /\ pc' = "idle"
    /\ UNCHANGED <<harness_vars, stream, rooms, backfill_vars, store, max_size>>

-----------------------------------------------------------------------------
(* The homeserver's room history endpoint *)

\* pagination tokens: PageTokens[p + 1] stands for "p events back from prev_batch"
PageTokens == <<"t0", "t1", "t2", "t3", "t4", "t5", "t6">>

PagePos(token) == (CHOOSE k \in 1..Len(PageTokens) : PageTokens[k] = token) - 1

Min(a, b) == IF a <= b THEN a ELSE b

\* client.room_messages(room_id, start=token, direction="b", limit=n) answered
\* with a RoomMessagesResponse: the chunk, the token it starts at, the token after it
RoomMessages(room_id, token, n) ==
    LET hist == rooms[room_id].history
        from == PagePos(token)
        upto == Min(from + n, Len(hist))
    IN [chunk |-> SubSeq(hist, from + 1, upto),
        start |-> token,
        end |-> PageTokens[upto + 1]]

\* the views of a room the backfill client may hold: its earliest known
\* pagination token (None when it has none) and the history behind it; these
\* two hold events the sync stream delivers too
SharedViews ==
    {[prev_batch |-> "t0",
      history |-> <<TextEvent("e1", "hello"), NoIdEvent, StateEvent("e2", "r1")>>],
     [prev_batch |-> "t0",
      history |-> <<EmptyIdEvent, StateEvent("e2", "r1"), TextEvent("e1", "hello")>>]}

\* the orders in which the room ids of S may have been put into client.rooms
Orders(S) ==
    {q \in [1..Cardinality(S) -> S] : \A i, j \in 1..Cardinality(S) : q[i] = q[j] => i = j}

\* client.rooms holding the views f, filled in the order q
InOrder(f, q) ==
    [r \in DOMAIN f |->
        [prev_batch |-> f[r].prev_batch, history |-> f[r].history,
         pos |-> CHOOSE i \in 1..Len(q) : q[i] = r]]

-----------------------------------------------------------------------------
(* MatrixBackfill *)

\* config.backfill_batch_size and the limit of backfill_room, scaled down
BackfillBatchSize == 2
BackfillLimit == 4

NotReturned == <<>>

\* the dict results of backfill_all_rooms when it is created
NoResults == [r \in {} |-> 0]

\* MatrixBackfill before a walk
InitBackfill ==
    /\ sweep = "none"
    /\ results = NoResults
    /\ b_rooms = <<>>
    /\ b_fault = "none"
    /\ b_limit = 0
    /\ bpc = "idle"
    /\ b_room = None
    /\ start_token = None
    /\ b_i = 0
    /\ event_count = 0
    /\ b_docs = <<>>
    /\ b_len = 0
    /\ b_result = NotReturned

\* backfill_room lines 103-119: the documents built from a chunk
RECURSIVE BackfillDocsOf(_, _)
BackfillDocsOf(chunk, room_id) ==
    IF chunk = <<>> THEN <<>>
    ELSE IF LacksEventId(chunk[1]) THEN BackfillDocsOf(Tail(chunk), room_id)
    ELSE <<BackfillDoc(chunk[1], room_id)>> \o BackfillDocsOf(Tail(chunk), room_id)

\* backfill_room lines 142-143 and 145-147: the walk returns count
BackfillReturn(count) ==
    /\ b_result' = <<count>>
    /\ bpc' = "done"

\* the walk continued from the token that follows the batch
BackfillNextBatchEnd ==
    /\ start_token' = RoomMessages(b_room, start_token, BackfillBatchSize).end
    /\ b_i' = b_i + BackfillBatchSize
    /\ bpc' = "loop"

\* backfill_room lines 134-140: the start token for the next batch, next i
BackfillNextBatch ==
    /\ start_token' = RoomMessages(b_room, start_token, BackfillBatchSize).start
    /\ b_i' = b_i + BackfillBatchSize
    /\ bpc' = "loop"

\* MatrixBackfill.connect lines 39-43: self.client is a new AsyncClient, which
\* knows no room until it has synced
NoRooms == [r \in {} |-> None]

\* backfill_room lines 71-82: the room is looked up in client.rooms, the walk
\* starts
StartWalkIn(client_rooms, room_id, limit) ==
    /\ b_room' = room_id
    /\ b_limit' = limit
    /\ b_fault' = "none"
    /\ IF room_id \notin DOMAIN client_rooms
       THEN /\ BackfillReturn(0)
            /\ UNCHANGED <<start_token, b_i, event_count>>
       ELSE /\ event_count' = 0
            /\ start_token' = client_rooms[room_id].prev_batch
            /\ b_i' = 0
            /\ bpc' = "loop"
            /\ UNCHANGED b_result

StartWalk(room_id, limit) == StartWalkIn(rooms, room_id, limit)

\* the room ids a caller may name: those of the homeserver's rooms and one
\* that no client knows
RoomIds == {"r1", "r2", "r9"}

\* backfill_single_room with an access token: connect builds a new client
\* (nothing syncs it) without awaiting, and backfill_room is called for the
\* room id with the default limit
BackfillSingleRoom ==
    /\ bpc = "idle" /\ sweep = "none"
    /\ rooms' = NoRooms
    /\ \E room_id \in RoomIds : StartWalkIn(rooms', room_id, BackfillLimit)
    /\ UNCHANGED <<harness_vars, stream, store, indexer_vars, b_docs, b_len,
                   sweep_vars>>

\* backfill_single_room with a password: connect has built the new client and
\* awaits client.login (line 51); b_room holds the room id the caller named
BackfillSingleRoomLogin ==
    /\ bpc = "idle" /\ sweep = "none"
    /\ rooms' = NoRooms
    /\ bpc' = "login"
    /\ \E room_id \in RoomIds : b_room' = room_id
    /\ UNCHANGED <<harness_vars, stream, store, indexer_vars, start_token, b_i,
                   event_count, b_docs, b_len, b_result, b_fault, b_limit, sweep_vars>>

\* connect lines 55-67 and backfill_single_room line 190: the login was
\* accepted, backfill_room is called with the default limit
BackfillLoginOk ==
    /\ bpc = "login" /\ sweep = "none"
    /\ StartWalkIn(rooms, b_room, BackfillLimit)
    /\ UNCHANGED <<harness_vars, stream, rooms, store, indexer_vars, b_docs, b_len,
                   sweep_vars>>

\* connect lines 58-59: the login is refused and connect raises; the entry
\* point logs the error and stops, no room is walked
BackfillConnectFails ==
    /\ bpc = "login"
    /\ bpc' = "idle"
    /\ b_room' = None
    /\ sweep' = "none"
    /\ UNCHANGED <<harness_vars, stream, rooms, store, indexer_vars, start_token, b_i,
                   event_count, b_docs, b_len, b_result, b_fault, b_limit, results,
                   b_rooms>>

\* backfill_room(room_id) called with the default limit on a MatrixBackfill
\* whose client holds the rooms of a sync
BackfillRoom ==
    /\ bpc = "idle" /\ sweep = "none"
    /\ \E room_id \in RoomIds : StartWalk(room_id, BackfillLimit)
    /\ UNCHANGED <<harness_vars, stream, rooms, store, indexer_vars, b_docs, b_len,
                   sweep_vars>>

\* backfill_room(room_id, limit): the walk is asked for with a limit of its own
BackfillRoomLimit ==
    /\ bpc = "idle" /\ sweep = "none"
    /\ \E room_id \in RoomIds, limit \in 1..BackfillLimit :
           StartWalk(room_id, limit)
    /\ UNCHANGED <<harness_vars, stream, rooms, store, indexer_vars, b_docs, b_len,
                   sweep_vars>>

\* a pass of the loop that does not end the walk on an empty chunk
BackfillFetchNoBreak ==
    /\ bpc = "loop"
    /\ IF b_i >= b_limit \/ start_token = None
       THEN /\ BackfillReturn(event_count)
            /\ UNCHANGED <<start_token, b_i, b_docs, b_len>>
       ELSE LET r == RoomMessages(b_room, start_token, BackfillBatchSize)
                docs == BackfillDocsOf(r.chunk, b_room)
            IN IF docs = <<>>
               THEN /\ BackfillNextBatch
                    /\ UNCHANGED <<b_docs, b_len, b_result>>
               ELSE /\ b_docs' = docs
                    /\ b_len' = Len(docs)
                    /\ bpc' = "storing"
                    /\ UNCHANGED <<start_token, b_i, b_result>>
    /\ UNCHANGED <<harness_vars, stream, rooms, store, indexer_vars, b_room, event_count,
                   b_fault, b_limit, sweep_vars>>

\* backfill_room lines 84-119: one pass of the loop up to the built documents
BackfillFetch ==
    /\ bpc = "loop"
    /\ IF b_i >= b_limit \/ start_token = None
       THEN /\ BackfillReturn(event_count)
            /\ UNCHANGED <<start_token, b_i, b_docs, b_len>>
       ELSE LET r == RoomMessages(b_room, start_token, BackfillBatchSize)
                docs == BackfillDocsOf(r.chunk, b_room)
            IN IF r.chunk = <<>>
               THEN /\ BackfillReturn(event_count)
                    /\ UNCHANGED <<start_token, b_i, b_docs, b_len>>
               ELSE IF docs = <<>>
               THEN /\ BackfillNextBatch
                    /\ UNCHANGED <<b_docs, b_len, b_result>>
               ELSE /\ b_docs' = docs
                    /\ b_len' = Len(docs)
                    /\ bpc' = "storing"
                    /\ UNCHANGED <<start_token, b_i, b_result>>
    /\ UNCHANGED <<harness_vars, stream, rooms, store, indexer_vars, b_room, event_count,
                   b_fault, b_limit, sweep_vars>>

\* backfill_room lines 98-100: room_messages returns an error response (no chunk)
BackfillFetchError ==
    /\ bpc = "loop"
    /\ b_i < b_limit /\ start_token # None
    /\ BackfillReturn(event_count)
    /\ UNCHANGED <<harness_vars, stream, rooms, store, indexer_vars, b_room, start_token, b_i,
                   event_count, b_docs, b_len, b_fault, b_limit, sweep_vars>>

\* backfill_room lines 145-147: room_messages raises
BackfillFetchRaises ==
    /\ bpc = "loop"
    /\ b_i < b_limit /\ start_token # None
    /\ BackfillReturn(0)
    /\ b_fault' = "fetch"
    /\ UNCHANGED <<harness_vars, stream, rooms, store, indexer_vars, b_room, start_token, b_i,
                   event_count, b_docs, b_len, b_limit, sweep_vars>>

\* backfill_room lines 123-130: one replace_one of the loop; after the last one
\* the batch is counted
BackfillStoreNext ==
    /\ bpc = "storing"
    /\ store' = ReplaceOne(store, Head(b_docs))
    /\ b_docs' = Tail(b_docs)
    /\ IF Tail(b_docs) = <<>>
       THEN /\ event_count' = event_count + b_len
            /\ BackfillNextBatch
       ELSE UNCHANGED <<event_count, start_token, b_i, bpc>>
    /\ UNCHANGED <<harness_vars, stream, rooms, indexer_vars, b_room, b_len, b_result,
                   b_fault, b_limit, sweep_vars>>

\* backfill_room lines 131-132: replace_one raises; the rest is not written
BackfillStoreError ==
    /\ bpc = "storing"
    /\ b_docs' = <<>>
    /\ b_fault' = "store"
    /\ BackfillNextBatch
    /\ UNCHANGED <<harness_vars, stream, rooms, store, indexer_vars, b_room, event_count, b_len,
                   b_result, b_limit, sweep_vars>>

\* backfill_room has returned: its locals are gone
WalkOver ==
    /\ bpc' = "idle"
    /\ b_room' = None
    /\ start_token' = None
    /\ b_i' = 0
    /\ event_count' = 0
    /\ b_docs' = <<>>
    /\ b_len' = 0
    /\ b_result' = NotReturned
    /\ b_fault' = "none"
    /\ b_limit' = 0

\* the caller has the result; backfill_room may be invoked again
BackfillAgain ==
    /\ bpc = "done" /\ sweep = "none"
    /\ WalkOver
    /\ UNCHANGED <<harness_vars, stream, rooms, store, indexer_vars, sweep_vars>>

\* list(client.rooms.keys()): the joined rooms in the order of the dict, which
\* is the order in which the rooms were put into it (pos)
RoomKeysOf(client_rooms) ==
    IF DOMAIN client_rooms = {} THEN <<>>
    ELSE [i \in 1..Cardinality(DOMAIN client_rooms) |->
             CHOOSE r \in DOMAIN client_rooms : client_rooms[r].pos = i]
RoomKeys == RoomKeysOf(rooms)

\* backfill_all with a password: connect has built the new client and awaits
\* client.login (line 51)
BackfillAllLogin ==
    /\ sweep = "none" /\ bpc = "idle"
    /\ rooms' = NoRooms
    /\ bpc' = "login"
    /\ sweep' = "connect"
    /\ UNCHANGED <<harness_vars, stream, store, indexer_vars, b_room, start_token, b_i,
                   event_count, b_docs, b_len, b_result, b_fault, b_limit, results,
                   b_rooms>>

\* connect lines 55-67 and backfill_all line 205: the login was accepted,
\* backfill_all_rooms lists the rooms of the client
BackfillAllLoginOk ==
    /\ bpc = "login" /\ sweep = "connect"
    /\ bpc' = "idle"
    /\ results' = NoResults
    /\ b_rooms' = RoomKeysOf(rooms)
    /\ sweep' = "rooms"
    /\ UNCHANGED <<harness_vars, stream, rooms, store, indexer_vars, b_room,
                   start_token, b_i, event_count, b_docs, b_len, b_result, b_fault,
                   b_limit>>

\* backfill_all with an access token: connect builds a new client (nothing
\* syncs it) without awaiting, and backfill_all_rooms lists its rooms
BackfillAll ==
    /\ sweep = "none" /\ bpc = "idle"
    /\ rooms' = NoRooms
    /\ results' = NoResults
    /\ b_rooms' = RoomKeysOf(rooms')
    /\ sweep' = "rooms"
    /\ UNCHANGED <<harness_vars, stream, store, indexer_vars, bpc, b_room,
                   start_token, b_i, event_count, b_docs, b_len, b_result, b_fault,
                   b_limit>>

\* backfill_all_rooms lines 152-156: results = {}, rooms = list(keys)
BackfillAllRooms ==
    /\ sweep = "none" /\ bpc = "idle"
    /\ results' = NoResults
    /\ b_rooms' = RoomKeys
    /\ sweep' = "rooms"
    /\ UNCHANGED <<harness_vars, stream, rooms, store, indexer_vars, bpc, b_room,
                   start_token, b_i, event_count, b_docs, b_len, b_result, b_fault,
                   b_limit>>

\* backfill_all_rooms lines 158-159: backfill_room is called for the next room
BackfillAllNext ==
    /\ sweep = "rooms" /\ bpc = "idle"
    /\ b_rooms # <<>>
    /\ StartWalk(Head(b_rooms), BackfillLimit)
    /\ UNCHANGED <<harness_vars, stream, rooms, store, indexer_vars, b_docs, b_len,
                   sweep_vars>>

\* backfill_all_rooms lines 160-161: results[room_id] = count
BackfillAllCollect ==
    /\ sweep = "rooms" /\ bpc = "done"
    /\ results' = [r \in DOMAIN results \cup {b_room} |->
                      IF r = b_room THEN b_result[1] ELSE results[r]]
    /\ b_rooms' = Tail(b_rooms)
    /\ WalkOver
    /\ UNCHANGED <<harness_vars, stream, rooms, store, indexer_vars, sweep>>

\* backfill_all_rooms lines 163-164: every room was walked, results is returned
BackfillAllReturn ==
    /\ sweep = "rooms" /\ bpc = "idle"
    /\ b_rooms = <<>>
    /\ sweep' = "done"
    /\ UNCHANGED <<harness_vars, stream, rooms, store, indexer_vars, bpc, b_room,
                   start_token, b_i, event_count, b_docs, b_len, b_result, b_fault,
                   b_limit, results, b_rooms>>

\* the caller has the results; the backfill may be invoked again
BackfillAllAgain ==
    /\ sweep = "done"
    /\ sweep' = "none"
    /\ results' = NoResults
    /\ UNCHANGED <<harness_vars, stream, rooms, store, indexer_vars, bpc, b_room,
                   start_token, b_i, event_count, b_docs, b_len, b_result, b_fault,
                   b_limit, b_rooms>>

-----------------------------------------------------------------------------
(* Specifications *)

\* capacity of the indexer's cache in the model
CacheCap == 2

InitIndexer ==
    /\ store = <<>>
    /\ cache = <<>>
    /\ max_size = CacheCap
    /\ sync_token = None
    /\ state_file = NoFile
    /\ running = FALSE
    /\ pc = "idle"
    /\ resp = NoResp
    /\ room_idx = 1
    /\ docs_to_insert = <<>>
    /\ poll_token = None
    /\ cycle_saved = FALSE
    /\ cycle_failed = FALSE
    /\ saved_before = None

\* the ids the cache calls of the model use
CacheIds == {"a", "b", "c"}

NotSet == [set |-> FALSE, store |-> <<>>]

InitHarness ==
    /\ passes = 0
    /\ once = NotSet
    /\ adds = <<>>
    /\ inserted_at = [id \in CacheIds |-> 0]
    /\ ret = None

\* the indexer alone, against any stream of NumBatches responses
Init ==
    /\ stream \in [1..NumBatches -> Responses]
    /\ rooms = [r \in {} |-> None]
    /\ InitIndexer
    /\ InitBackfill
    /\ InitHarness

Next ==
    \/ Connect
    \/ LoginFailed
    \/ Poll
    \/ SyncOk
    \/ SyncErrorResponse
    \/ SyncRaises
    \/ Backoff
    \/ SaveStateOpen
    \/ SaveStateWrite
    \/ SaveStateOpenError
    \/ SaveStateWriteError
    \/ ProcessEvents
    \/ StoreNext
    \/ StoreError
    \/ SyncComplete
    \/ Stop
    \/ LoopExit
    \/ Cancelled
    \/ Crash

Spec == Init /\ [][Next]_vars

\* the responses longer streams are drawn from: two rooms with an event
\* without identifier among their events, a room with two events, no room
PollResponses ==
    {<<JoinedRoom("r1", <<TextEvent("e1", "hello"), NoIdEvent>>),
       JoinedRoom("r2", <<StateEvent("e2", "r2")>>)>>,
     <<JoinedRoom("r1", <<OddEvent("e3"), TextEvent("e4", "bye")>>)>>,
     <<>>}

\* the indexer alone, against any stream of NumBatches of these responses
InitPoll ==
    /\ stream \in [1..NumBatches -> PollResponses]
    /\ rooms = [r \in {} |-> None]
    /\ InitIndexer
    /\ InitBackfill
    /\ InitHarness

SpecPoll == InitPoll /\ [][Next]_vars

\* the indexer and a backfill process writing to the same collection; the
\* sync stream holds one response, delivered again after every restart that
\* finds no cursor
InitBoth ==
    /\ stream \in {<<r>> : r \in SharedResponses}
    /\ rooms \in {InOrder(f, q) : f \in [{"r1"} -> SharedViews], q \in Orders({"r1"})}
    /\ InitIndexer
    /\ InitBackfill
    /\ InitHarness

NextBoth ==
    \/ Next
    \/ BackfillSingleRoom
    \/ BackfillSingleRoomLogin
    \/ BackfillLoginOk
    \/ BackfillConnectFails
    \/ BackfillRoom
    \/ BackfillFetch
    \/ BackfillFetchError
    \/ BackfillFetchRaises
    \/ BackfillStoreNext
    \/ BackfillStoreError
    \/ BackfillAgain

SpecBoth == InitBoth /\ [][NextBoth]_vars

\* the views of a room the backfill is run against on its own: a room with no
\* earliest-known token, a room with no history behind its token, a history of
\* two pages, a history whose first page holds no event with an identifier
BackfillViews ==
    {[prev_batch |-> None, history |-> <<TextEvent("e1", "hello")>>],
     [prev_batch |-> "t0", history |-> <<>>],
     [prev_batch |-> "t0",
      history |-> <<TextEvent("e1", "hello"), StateEvent("e2", "r1"), OddEvent("e3")>>],
     [prev_batch |-> "t0",
      history |-> <<NoneIdEvent, EmptyIdEvent, TextEvent("e4", "bye")>>]}

\* the backfill alone, for one room or for all joined rooms: a MatrixBackfill
\* whose client holds the joined rooms of a sync
InitBackfillOnly ==
    /\ stream = <<>>
    /\ rooms \in {InOrder(f, q) : f \in [{"r1", "r2"} -> BackfillViews],
                                 q \in Orders({"r1", "r2"})}
    /\ InitIndexer
    /\ InitBackfill
    /\ InitHarness

NextBackfill ==
    \/ BackfillSingleRoom
    \/ BackfillSingleRoomLogin
    \/ BackfillLoginOk
    \/ BackfillAll
    \/ BackfillAllLogin
    \/ BackfillAllLoginOk
    \/ BackfillConnectFails
    \/ BackfillRoom
    \/ BackfillFetch
    \/ BackfillFetchError
    \/ BackfillFetchRaises
    \/ BackfillStoreNext
    \/ BackfillStoreError
    \/ BackfillAgain
    \/ BackfillAllRooms
    \/ BackfillAllNext
    \/ BackfillAllCollect
    \/ BackfillAllReturn
    \/ BackfillAllAgain

SpecBackfill == InitBackfillOnly /\ [][NextBackfill]_vars

\* one invocation of backfill_room on an empty collection, for every limit
InitWalk == InitBackfillOnly

NextWalk ==
    \/ BackfillRoomLimit
    \/ BackfillFetch
    \/ BackfillFetchError
    \/ BackfillFetchRaises
    \/ BackfillStoreNext
    \/ BackfillStoreError

SpecWalk == InitWalk /\ [][NextWalk]_vars

-----------------------------------------------------------------------------
(* Replay of one batch through _process_events *)

RECURSIVE SeqsUpTo(_, _)
SeqsUpTo(S, n) ==
    IF n = 0 THEN {<<>>}
    ELSE SeqsUpTo(S, n - 1) \cup
         {Append(q, x) : q \in {r \in SeqsUpTo(S, n - 1) : Len(r) = n - 1}, x \in S}

\* the events replayed timelines are made of: two versions of one event,
\* another event, an event whose identifier is None
ReplayPool == {TextEvent("e1", "hello"), TextEvent("e1", "edited"),
               StateEvent("e2", "r1"), NoneIdEvent}

\* what the collection may hold before the replay
ReplayStores == {<<>>, <<BackfillDoc(TextEvent("e1", "old"), "r1")>>,
                 <<SerializeEvent(StateEvent("e9", "r1"))>>}

\* the batch has been passed through _process_events to its end
PassOver == pc = "rooms" /\ room_idx > Len(resp.rooms)

\* sync_loop line 219: every joined room was handled; the replay records the
\* store the first complete pass left
PassComplete ==
    /\ PassOver
    /\ pc' = "top"
    /\ passes' = IF passes <= MaxRedeliveries THEN passes + 1 ELSE passes
    /\ once' = IF ~once.set /\ ~cycle_failed /\ resp.rooms = stream[1]
               THEN [set |-> TRUE, store |-> store]
               ELSE once
    /\ UNCHANGED <<stream, rooms, backfill_vars, store, cache, max_size, sync_token,
                   state_file, running, resp, room_idx, docs_to_insert, poll_token,
                   cycle_saved, cycle_failed, saved_before, adds, inserted_at, ret>>

\* the homeserver delivers the same timeline in every response of its stream
InitReplay ==
    /\ \E t \in SeqsUpTo(ReplayPool, MaxReplayLen) :
          stream = [k \in 1..(MaxRedeliveries + 1) |-> <<JoinedRoom("r1", t)>>]
    /\ rooms = [r \in {} |-> None]
    /\ store \in ReplayStores
    /\ cache = <<>>
    /\ max_size = CacheCap
    /\ sync_token = None
    /\ state_file = NoFile
    /\ running = FALSE
    /\ pc = "idle"
    /\ resp = NoResp
    /\ room_idx = 1
    /\ docs_to_insert = <<>>
    /\ poll_token = None
    /\ cycle_saved = FALSE
    /\ cycle_failed = FALSE
    /\ saved_before = None
    /\ InitBackfill
    /\ InitHarness

NextReplay ==
    \/ Connect
    \/ Poll
    \/ SyncOk
    \/ SaveStateOpen
    \/ SaveStateWrite
    \/ SaveStateOpenError
    \/ SaveStateWriteError
    \/ ProcessEvents
    \/ StoreNext
    \/ StoreError
    \/ PassComplete

SpecReplay == InitReplay /\ [][NextReplay]_vars

\* C4: idempotent replay: whenever the timeline has been passed through
\* _process_events again, every write accepted, the store equals the store
\* after the first complete pass
C4_IdempotentReplay ==
    (once.set /\ PassOver /\ ~cycle_failed /\ resp.rooms = stream[1])
    => store = once.store

\* a second complete pass of a timeline that holds one event_id twice, over a
\* collection that already held a document
C4_Witness ==
    /\ once.set /\ PassOver /\ ~cycle_failed /\ resp.rooms = stream[1]
    /\ passes = 1
    /\ Len(DocsOf(resp.rooms[1].events)) = 3
    /\ Len(store) = 3
    /\ store = once.store

-----------------------------------------------------------------------------
(* Calls on an EventCache *)

CacheValues == {"x", "y"}

\* EventCache.add(event_id, event)
DoAdd ==
    /\ Len(adds) < MaxAdds
    /\ \E id \in CacheIds, event \in CacheValues :
         /\ cache' = CacheAdd(cache, max_size, id, event)
         /\ adds' = Append(adds, id)
         /\ inserted_at' = IF CacheContains(cache, id)
                           THEN inserted_at
                           ELSE [inserted_at EXCEPT ![id] = Len(adds) + 1]
    /\ ret' = None
    /\ UNCHANGED <<stream, rooms, backfill_vars, store, max_size, sync_token,
                   state_file, running, pc, resp, room_idx, docs_to_insert,
                   poll_token, cycle_saved, cycle_failed, saved_before, passes,
                   once>>

\* a get that promotes the entry it finds (an LRU on read)
DoGetPromote ==
    /\ \E id \in CacheIds :
         /\ ret' = CacheGet(cache, id)
         /\ cache' = IF CacheContains(cache, id)
                     THEN OrderedDictSetMoveToEnd(cache, id, CacheGet(cache, id))
                     ELSE cache
    /\ UNCHANGED <<stream, rooms, backfill_vars, store, max_size, sync_token,
                   state_file, running, pc, resp, room_idx, docs_to_insert,
                   poll_token, cycle_saved, cycle_failed, saved_before, passes,
                   once, adds, inserted_at>>

\* EventCache.get(event_id)
DoGet ==
    /\ \E id \in CacheIds : ret' = CacheGet(cache, id)
    /\ UNCHANGED <<stream, rooms, backfill_vars, store, indexer_vars, passes, once,
                   adds, inserted_at>>

\* EventCache.contains(event_id)
DoContains ==
    /\ \E id \in CacheIds :
          ret' = IF CacheContains(cache, id) THEN "True" ELSE "False"
    /\ UNCHANGED <<stream, rooms, backfill_vars, store, indexer_vars, passes, once,
                   adds, inserted_at>>

InitCache ==
    /\ stream = <<>>
    /\ rooms = [r \in {} |-> None]
    /\ store = <<>>
    /\ cache = <<>>
    /\ max_size \in 1..MaxCap
    /\ sync_token = None
    /\ state_file = NoFile
    /\ running = FALSE
    /\ pc = "idle"
    /\ resp = NoResp
    /\ room_idx = 1
    /\ docs_to_insert = <<>>
    /\ poll_token = None
    /\ cycle_saved = FALSE
    /\ cycle_failed = FALSE
    /\ saved_before = None
    /\ InitBackfill
    /\ InitHarness

NextCache ==
    \/ DoAdd
    \/ DoGet
    \/ DoContains

SpecCache == InitCache /\ [][NextCache]_vars

\* the ids that have been inserted: an add of an id the cache holds overwrites
\* its record and is no insertion, an add of an id it does not hold (never
\* added, or evicted since) is one
Inserted == {id \in CacheIds : inserted_at[id] > 0}

\* the n most recently inserted ids (all of them when there are fewer)
MostRecentlyInserted(n) ==
    {id \in Inserted :
        Cardinality({o \in Inserted : inserted_at[o] > inserted_at[id]}) < n}

\* C7: after more than max_size adds, ids repeating or not, the cache holds
\* exactly the max_size most recently inserted ids, an insertion being an add
\* of an id the cache does not hold at that moment
C7_FifoMostRecentlyInserted ==
    Len(adds) > max_size => CacheKeys(cache) = MostRecentlyInserted(max_size)

\* capacity 2, four adds with a repeated id: the first id was evicted by the
\* third add and inserted again by the fourth, which evicted the second
C7_Witness ==
    /\ max_size = 2 /\ Len(adds) = 4
    /\ adds[4] = adds[1] /\ adds[2] # adds[1] /\ adds[3] \notin {adds[1], adds[2]}
    /\ inserted_at[adds[1]] = 4
    /\ CacheKeys(cache) = {adds[3], adds[1]}

\* the key of keys that was inserted first
OldestInserted(keys, at) == {k \in keys : \A j \in keys : at[k] <= at[j]}

\* C8: the cache never holds more than max_size entries; an add that would
\* exceed the capacity removes exactly one entry, the oldest-inserted one
\* present, and any other add removes none
C8_CapacityAndEviction ==
    /\ [](CacheSize(cache) <= max_size)
    /\ [][adds' # adds =>
            LET present == CacheKeys(cache) \cup {adds'[Len(adds')]}
            IN IF Cardinality(present) > max_size
               THEN /\ Cardinality(OldestInserted(present, inserted_at')) = 1
                    /\ CacheKeys(cache')
                         = present \ OldestInserted(present, inserted_at')
               ELSE CacheKeys(cache') = present]_vars

\* a full cache of capacity 2 in which the first key was overwritten and
\* then evicted by the add of a third key
C8_Witness ==
    /\ max_size = 2 /\ Len(adds) = 4
    /\ adds[1] = adds[3] /\ adds[2] # adds[1] /\ adds[4] \notin {adds[1], adds[2]}
    /\ CacheKeys(cache) = {adds[2], adds[4]}

\* the keys of the OrderedDict in its order
KeyOrder(od) == [i \in 1..Len(od) |-> od[i].key]

\* the cache after the adds of seq alone, made on an empty cache
RECURSIVE AddsAlone(_, _)
AddsAlone(seq, cap) ==
    IF seq = <<>> THEN <<>>
    ELSE CacheAdd(AddsAlone(SubSeq(seq, 1, Len(seq) - 1), cap), cap,
                  seq[Len(seq)], "x")

\* C21: cache reads are pure: a step that adds nothing leaves the cache as it
\* is, and after any sequence of add, get and contains the keys of the cache
\* and their eviction order are those the adds alone would have left
C21_ReadsArePure ==
    /\ [][adds' = adds => cache' = cache]_vars
    /\ [](KeyOrder(cache) = KeyOrder(AddsAlone(adds, max_size)))

\* a get has just returned the value of the oldest entry of a full cache of
\* capacity 2, after an eviction; that entry is still the next to be evicted
C21_Witness ==
    /\ max_size = 2 /\ CacheSize(cache) = 2 /\ Len(adds) = 3
    /\ ret \in CacheValues /\ ret = cache[1].value /\ ret # cache[2].value
    /\ cache[1].key = adds[2]

-----------------------------------------------------------------------------
(* Properties of the sync loop and the cursor *)

\* a document with this event_id is in the collection
InStore(id) == FindOne(store, id) # 0

\* the event_ids of the events of a response that carry one
RECURSIVE IdsOfTimeline(_)
IdsOfTimeline(events) ==
    IF events = <<>> THEN {}
    ELSE (IF LacksEventId(events[1]) THEN {} ELSE {events[1].event_id})
         \cup IdsOfTimeline(Tail(events))

IdsOfResponse(r) == UNION {IdsOfTimeline(r[j].events) : j \in 1..Len(r)}

\* the token a restart would load from the state file
PersistedToken == LoadState(state_file, None)

\* the cycle in progress still has documents to write: those pending in
\* _process_events, or those of a joined room not yet processed
CycleHasPendingWrites ==
    \/ pc = "storing"
    \/ /\ pc = "rooms"
       /\ \E j \in room_idx..Len(resp.rooms) : DocsOf(resp.rooms[j].events) # <<>>

\* C1: store-then-checkpoint: once the cursor of a sync cycle is written to the
\* state file, no store write of that cycle is still to come
C1_StoreThenCheckpoint == cycle_saved => ~CycleHasPendingWrites

\* C2: cursor invariant: when the state file holds token T, every event with
\* an identifier of every response consumed on the way to T is in the store
C2_CursorInvariant ==
    (state_file.exists /\ JsonLoads(state_file.text).ok /\ PersistedToken # None)
    => \A k \in 1..PosOf(PersistedToken) :
          \A id \in IdsOfResponse(stream[k]) : InStore(id)

\* C3: when a store write fails in a sync cycle the cursor is not advanced:
\* sync_token keeps the value the poll was issued with and the state file is
\* not written in that cycle
C3_FailedWriteKeepsCursor ==
    cycle_failed => (sync_token = poll_token /\ ~cycle_saved)

\* C6: crash before checkpoint: when a sync cycle has stored all its events
\* and the new cursor is not in the state file, a restart polls with the
\* cursor the state file held before the cycle
C6_RestartFromOldCursor ==
    (/\ pc = "top" /\ poll_token # sync_token /\ ~cycle_failed
     /\ IdsOfResponse(resp.rooms) # {}
     /\ \A id \in IdsOfResponse(resp.rooms) : InStore(id)
     /\ PersistedToken # sync_token)
    => PersistedToken = saved_before

\* C10: the cursor save is crash-atomic: after a crash during _save_state the
\* state file holds the complete previous or the complete new token, so that
\* _load_state returns one of the two
C10_SaveCrashAtomic ==
    [][(pc = "saving" /\ pc' = "idle")
        => LoadState(state_file', None) \in {saved_before, sync_token}]_vars

\* C11: cancellation of the sync loop: once running is false the loop issues
\* no poll from the top of a cycle, and when the loop has stopped the cursor in
\* use is the cursor the state file holds
C11_StopAtPersistedCursor ==
    /\ [](pc = "stopped" => sync_token = PersistedToken)
    /\ [][(~running /\ pc = "top") => pc' # "poll"]_vars


\* a step that issues a poll, and one whose poll fails
PollIssued == pc = "top" /\ pc' = "poll"
PollFailed == pc = "poll" /\ pc' = "backoff"

\* the last answer of the homeserver refused the access token
CredentialRejected ==
    ~IsSyncResponse(resp) /\ resp.status_code = "M_UNKNOWN_TOKEN"

\* C14: a rejected credential is fatal: after a refused login the process has
\* ended and polls no more, and once a sync call was refused for its access
\* token no further poll is issued
C14_RejectedCredentialFatal ==
    [][/\ pc = "fatal" => pc' \in {"fatal", "idle"}
       /\ CredentialRejected => ~PollIssued]_vars

\* C15: every failure of a sync cycle is followed by the back-off before the
\* next poll and leaves the loop running: a failed poll leads to the back-off,
\* a failed store write does not end the loop, and a cycle in which a store
\* write failed does not return to the top of the loop without the back-off
C15_BackoffAfterFailure ==
    [][/\ PollFailed => running' = running
       /\ StoreError => (running' = running /\ pc' # "stopped")
       /\ (pc = "rooms" /\ pc' = "top") => ~cycle_failed]_vars

\* C16: a failed poll changes nothing: the step leaves the collection, the
\* cache, sync_token and the state file as they are, and the poll after the
\* back-off is issued with the cursor of the failed poll
C16_FailedPollChangesNothing ==
    /\ [][PollFailed => UNCHANGED <<store, cache, sync_token, state_file>>]_vars
    /\ [](pc = "backoff" => sync_token = poll_token)
    /\ [][(pc = "backoff" /\ pc' = "top") => sync_token' = poll_token]_vars

\* a poll failed after a cycle that had stored events, filled the cache and
\* saved its cursor
C16_Witness ==
    /\ pc = "backoff" /\ ~IsSyncResponse(resp)
    /\ sync_token # None /\ PersistedToken = sync_token
    /\ store # <<>> /\ cache # <<>>

-----------------------------------------------------------------------------
(* Properties of the collection under both writers *)

\* no two documents of the collection have the same event_id
UniqueIds(coll) ==
    \A i, j \in 1..Len(coll) : coll[i].event_id = coll[j].event_id => i = j

\* every document of the collection is still there, by event_id, in its place
NothingDeleted ==
    /\ Len(store') >= Len(store)
    /\ \A i \in 1..Len(store) : store'[i].event_id = store[i].event_id

\* the step left doc as the collection's document for its event_id, whole, in
\* the place of the one it replaces, and touched no other document
WrittenInFull(doc) ==
    /\ \E i \in 1..Len(store') : store'[i] = doc
    /\ InStore(doc.event_id) => Len(store') = Len(store)
    /\ ~InStore(doc.event_id) => Len(store') = Len(store) + 1
    /\ \A j \in 1..Len(store) :
          store[j].event_id # doc.event_id => store'[j] = store[j]

\* C5: the collection never holds two documents with the same event_id,
\* however the writes of the sync loop and of the backfill interleave; a write
\* for an event_id already present replaces that document in full; no step
\* deletes a document
C5_UniqueReplaceNoDelete ==
    /\ []UniqueIds(store)
    /\ [][/\ NothingDeleted
          /\ StoreNext => WrittenInFull(Head(docs_to_insert))
          /\ BackfillStoreNext => WrittenInFull(Head(b_docs))]_vars

\* the backfill has written and counted e1, and the sync loop has since
\* replaced that document: it no longer carries the backfilled field
C5_Witness ==
    /\ bpc = "loop" /\ event_count > 0
    /\ "e1" \in IdsOfTimeline(RoomMessages(b_room, start_token, BackfillBatchSize).chunk)
    /\ InStore("e1")
    /\ "backfilled" \notin DOMAIN store[FindOne(store, "e1")]
    /\ Len(store) = 2

\* an event of the timeline lacks an identifier
HasIdless(events) == \E i \in 1..Len(events) : LacksEventId(events[i])

\* the joined rooms of resp the sync loop has gone through
RoomsDone == 1..Min(room_idx - 1, Len(resp.rooms))

\* the chunk the backfill walk last fetched
LastChunk == RoomMessages(b_room, start_token, BackfillBatchSize).chunk

\* C9: no document and no cache entry has a missing, None or empty event_id, and
\* once a timeline or chunk has been written without a store error every
\* event of it that has an identifier is in the collection
C9_IdlessSkipped ==
    /\ \A i \in 1..Len(store) : store[i].event_id \notin {"", None}
    /\ CacheKeys(cache) \cap {"", None} = {}
    /\ (pc = "rooms" /\ ~cycle_failed)
         => \A j \in RoomsDone :
               \A id \in IdsOfTimeline(resp.rooms[j].events) : InStore(id)
    /\ (bpc = "loop" /\ event_count > 0)
         => \A id \in IdsOfTimeline(LastChunk) : InStore(id)

\* both drivers have written a batch that held an event without identifier
\* beside one with an identifier
C9_Witness ==
    /\ pc = "rooms" /\ room_idx = 2 /\ ~cycle_failed
    /\ HasIdless(resp.rooms[1].events)
    /\ IdsOfTimeline(resp.rooms[1].events) # {}
    /\ bpc = "loop" /\ event_count > 0
    /\ HasIdless(LastChunk)
    /\ IdsOfTimeline(LastChunk) # {}
    /\ Len(store) = 2

\* the events of a timeline or chunk that carry an identifier
EventsOf(events) == {events[i] : i \in {j \in 1..Len(events) : ~LacksEventId(events[j])}}

\* the raw events the sync stream delivers, and those of the history of a room
SyncEvents ==
    UNION {EventsOf(stream[k][j].events) : k \in 1..Len(stream), j \in 1..2}
HistoryEvents(room_id) == EventsOf(rooms[room_id].history)

\* C19: convergence of concurrent writes: when one driver writes a raw event
\* whose document in the collection was written by the other driver from the
\* same raw event, the collection is left as it was, so that the final
\* document does not depend on which driver writes last
C19_ConvergentWrites ==
    [][\A room_id \in DOMAIN rooms :
         \A e \in SyncEvents \cap HistoryEvents(room_id) :
            LET at == FindOne(store, e.event_id)
            IN /\ (/\ StoreNext
                   /\ Head(docs_to_insert) = SerializeEvent(e)
                   /\ at # 0
                   /\ store[at] = BackfillDoc(e, room_id)) => store' = store
               /\ (/\ BackfillStoreNext
                   /\ Head(b_docs) = BackfillDoc(e, room_id)
                   /\ at # 0
                   /\ store[at] = SerializeEvent(e)) => store' = store]_vars

\* the document of the collection for id carries backfilled = true
Flagged(coll, id) ==
    LET at == FindOne(coll, id)
    IN /\ at # 0
       /\ HasAttr(coll[at], "backfilled")
       /\ coll[at].backfilled

\* C20: a document carries backfilled = true only if its most recent write
\* was made by the backfill: a write of the sync loop leaves its document
\* without the flag, a write of the backfill leaves it with the flag, and the
\* flag of a document changes in no other step
C20_BackfilledOnlyByWalker ==
    [][/\ StoreNext => ~Flagged(store', Head(docs_to_insert).event_id)
       /\ BackfillStoreNext => Flagged(store', Head(b_docs).event_id)
       /\ \A i \in 1..Len(store) :
             Flagged(store', store[i].event_id) # Flagged(store, store[i].event_id)
             => \/ StoreNext /\ Head(docs_to_insert).event_id = store[i].event_id
                \/ BackfillStoreNext /\ Head(b_docs).event_id = store[i].event_id]_vars

\* the walk of r1 has written e1 in both its passes, and the document of e1
\* is the one the sync loop wrote after that
C20_Witness ==
    /\ bpc = "done" /\ b_room = "r1" /\ b_result = <<2>>
    /\ rooms["r1"].history[1] \in SyncEvents
    /\ rooms["r1"].history[1].event_id = "e1"
    /\ InStore("e1") /\ ~Flagged(store, "e1")
    /\ Len(store) = 2

-----------------------------------------------------------------------------
(* Properties of the backfill *)

\* C12: backfill_all_rooms returns an entry for every joined room; the entry
\* of a room in whose walk a fetch or a store write raised is 0, and the
\* entries of the other rooms are the counts their walks returned
C12_FailedRoomCountsZero ==
    /\ [](sweep = "done" => DOMAIN results = DOMAIN rooms)
    /\ [][BackfillAllCollect =>
            /\ results'[b_room] = b_result[1]
            /\ b_fault # "none" => results'[b_room] = 0
            /\ \A r \in DOMAIN results \ {b_room} : results'[r] = results[r]]_vars

\* C13: a write failure on one document of a batch does not silently drop the
\* other documents: when replace_one raises, no other document of the batch is
\* left unwritten, or the batch will be delivered again (the sync cursor is
\* the one of the poll; the walk fetches from the same token again)
C13_NoSilentDrop ==
    [][/\ StoreError => \/ Tail(docs_to_insert) = <<>>
                         \/ sync_token' = poll_token
       /\ BackfillStoreError => \/ Tail(b_docs) = <<>>
                                 \/ /\ start_token' = start_token
                                    /\ b_i' < b_limit]_vars

\* the token that follows the batch the walk is storing
FollowingToken == RoomMessages(b_room, start_token, BackfillBatchSize).end

\* the documents of the page a fetch with the walk's token returns
PageDocs == BackfillDocsOf(RoomMessages(b_room, start_token, BackfillBatchSize).chunk,
                           b_room)

\* sequence s is the end of sequence t
IsSuffix(s, t) ==
    /\ Len(s) <= Len(t)
    /\ SubSeq(t, Len(t) - Len(s) + 1, Len(t)) = s

\* C17: when a store write of a fetched batch fails, the walk does not go on
\* to the older page: its token is not the one following the batch, and
\* either the limit is reached, so that the walk fetches nothing more, or the
\* page its next fetch returns is the failed batch again, ending with the
\* documents left unwritten; the fetches of a walk that had a failed write
\* deliver the page of its token
C17_TokenNotPastUndurable ==
    /\ [][BackfillStoreError =>
            /\ start_token' # FollowingToken
            /\ \/ b_i' >= b_limit
               \/ /\ Len(PageDocs') = b_len
                  /\ IsSuffix(b_docs, PageDocs')]_vars
    /\ [][(BackfillFetch /\ b_fault = "store" /\ bpc' = "storing")
            => b_docs' = PageDocs]_vars

\* the first store write of a walk failed and the walk is about to fetch
\* again from the token of that batch
C17_Witness ==
    /\ bpc = "loop" /\ b_fault = "store"
    /\ b_i = BackfillBatchSize /\ b_i < b_limit
    /\ start_token = rooms[b_room].prev_batch
    /\ event_count = 0 /\ store = <<>>

\* the room of the walk has no earliest-known token, or no event behind it
NothingToFetch ==
    /\ b_room \in DOMAIN rooms
    /\ \/ rooms[b_room].prev_batch = None
       \/ RoomMessages(b_room, rooms[b_room].prev_batch, BackfillBatchSize).chunk = <<>>

\* C18: backfill_room on a room whose first response holds no event, or that
\* has no earliest-known token, returns 0 at its first pass of the loop
\* without a store write, and with that the walk is over
C18_ZeroEventBackfill ==
    /\ [][(BackfillFetch /\ NothingToFetch) =>
             /\ b_i = 0 /\ event_count = 0
             /\ b_result' = <<0>> /\ bpc' = "done"
             /\ store' = store]_vars
    /\ []((bpc \in {"loop", "storing"} /\ NothingToFetch) => (b_i = 0 /\ bpc = "loop"))
    /\ []((bpc = "done" /\ NothingToFetch) => b_result = <<0>>)

\* both kinds of walk have returned 0 with nothing written: for a room without
\* a token and, in the sweep, for a room with nothing behind its token
C18_Witness ==
    /\ bpc = "done" /\ NothingToFetch /\ b_fault = "none"
    /\ rooms[b_room].prev_batch # None
    /\ b_result = <<0>> /\ store = <<>>
    /\ sweep = "rooms" /\ b_room = "r2"
    /\ results = [r \in {"r1"} |-> 0] /\ rooms["r1"].prev_batch = None

\* C22: backfill pagination makes progress: when a pass of the walk is followed
\* by another, the token of the next fetch is the continuation token of the
\* response (the position after the chunk), not the token of the request
C22_PaginationProgress ==
    [][(bpc' = "loop" /\ b_i' > b_i) => start_token' = FollowingToken]_vars

\* C23: backfill_room respects its limit: during a walk on an empty
\* collection and when it has returned, the events stored and the events
\* counted are at most limit
C23_RespectsLimit ==
    (bpc # "idle" /\ b_room \in DOMAIN rooms)
    => /\ Len(store) <= b_limit
       /\ event_count <= b_limit
       /\ bpc = "done" => b_result[1] <= b_limit

\* C24: the count backfill_room returns is the number of distinct events the
\* invocation wrote: on a collection that was empty, the number of documents
\* it holds when the walk has returned
C24_CountIsWritten == bpc = "done" => b_result[1] = Len(store)

\* C25: at the top of every sync cycle the cursor in memory is the cursor a
\* load of the state file gives (None for both when there is none)
C25_CursorEqualsFile == pc = "top" => sync_token = PersistedToken

\* C26: a record written by the sync loop has the room_id of the joined room
\* whose timeline delivered the event; a record written by the backfill has
\* the room_id of the room that is walked
C26_RoomOfDelivery ==
    [][/\ StoreNext => Head(docs_to_insert).room_id = resp.rooms[room_idx].room_id
       /\ BackfillStoreNext => Head(b_docs).room_id = b_room]_vars

====
